---- MODULE Spec2Model ----
(***************************************************************************)
(* SunCheck: solar-installation projects with an auto-generated checklist. *)
(*                                                                         *)
(* The module models                                                       *)
(*   - the checklist generator of server/routes.ts (generateChecklistItems *)
(*     and getStructureItems) as operators over the request's fields;      *)
(*   - the HTTP handlers of server/routes.ts and the DatabaseStorage they  *)
(*     call as actions over the two tables of the shared schema.           *)
(*                                                                         *)
(* Numbers.  inverterPower travels as a string and is read by parseFloat;  *)
(* a string is modelled as a sequence of one-character strings and a       *)
(* JavaScript number as a record [nan, v] with v in hundredths of a unit   *)
(* (the resolution of the decimal(5,2) column), so 5.01 is v = 501.        *)
(* Math.ceil(x * c) is computed on exact rationals; for every panel count  *)
(* in 1..200 and every power with two decimals in 0..100 the IEEE-754      *)
(* double result of the source expression equals the exact one.            *)
(***************************************************************************)
EXTENDS Integers, Sequences, FiniteSets, TLC

VARIABLES
    projects,        \* table projects: id -> row
    checklistItems,  \* table checklist_items: id -> row
    nextProjectId,   \* serial of projects.id
    nextItemId,      \* serial of checklist_items.id
    creating,        \* POST /api/projects requests between their two inserts
    response,        \* the last answer a handler sent
    aiCall,          \* arguments of the last analyzeProject call
    returned,        \* body of the last 200 answer of POST /api/projects
    aiResult,        \* what the last /analyze or /report got from gemini.ts
    opCount,         \* number of requests received
    genIn,           \* argument of a direct generateChecklistItems call
    genOut,          \* its result
    genDone,         \* whether the call has returned
    snapshot,        \* per page: the project its query holds
    stale,           \* per page: whether the query is to be fetched
    itemRequests,    \* the updateChecklistItemMutation calls
    timers,          \* the setTimeout callbacks not yet run
    statusRequests,  \* the updateStatusMutation calls
    toggles          \* number of checkbox changes so far

vars == <<projects, checklistItems, nextProjectId, nextItemId, creating,
          response, aiCall, returned, aiResult, opCount, genIn, genOut,
          genDone, snapshot, stale, itemRequests, timers, statusRequests, toggles>>

storeVars == <<projects, checklistItems, nextProjectId, nextItemId, creating,
               response, aiCall, returned, aiResult, opCount>>

genVars == <<genIn, genOut, genDone>>

clientVars == <<snapshot, stale, itemRequests, timers, statusRequests, toggles>>

-----------------------------------------------------------------------------
(* Bounds of the model *)

MaxProjects == 2

MaxOps == 3

MaxToggles == 2

-----------------------------------------------------------------------------
(* JavaScript numbers and strings *)

DigitChars == <<"0", "1", "2", "3", "4", "5", "6", "7", "8", "9">>

IsDigit(c) == \E d \in 1..10 : DigitChars[d] = c

DigitVal(c) == (CHOOSE d \in 1..10 : DigitChars[d] = c) - 1

NaN == [nan |-> TRUE, v |-> 0]

Number(h) == [nan |-> FALSE, v |-> h]

RECURSIVE DigitsEnd(_, _)
DigitsEnd(s, i) ==
    IF i <= Len(s) /\ IsDigit(s[i]) THEN DigitsEnd(s, i + 1) ELSE i

RECURSIVE DigitsValue(_, _, _)
DigitsValue(s, i, j) ==
    IF i >= j THEN 0 ELSE DigitsValue(s, i, j - 1) * 10 + DigitVal(s[j - 1])

\* parseFloat: optional sign, digits, optional "." and digits; stops at the
\* first character that cannot continue the number; NaN without any digit.
parseFloat(s) ==
    LET signed == Len(s) >= 1 /\ s[1] \in {"-", "+"}
        sign   == IF Len(s) >= 1 /\ s[1] = "-" THEN -1 ELSE 1
        start  == IF signed THEN 2 ELSE 1
        ie     == DigitsEnd(s, start)
        hasDot == ie <= Len(s) /\ s[ie] = "."
        fe     == IF hasDot THEN DigitsEnd(s, ie + 1) ELSE ie
        nInt   == ie - start
        nFrac  == IF hasDot THEN fe - (ie + 1) ELSE 0
        frac   == IF nFrac = 0 THEN 0
                  ELSE IF nFrac = 1 THEN DigitVal(s[ie + 1]) * 10
                  ELSE DigitVal(s[ie + 1]) * 10 + DigitVal(s[ie + 2])
    IN  IF nInt = 0 /\ nFrac = 0 THEN NaN
        ELSE Number(sign * (DigitsValue(s, start, ie) * 100 + frac))

\* Math.max: NaN if either argument is NaN
MathMax(a, b) ==
    IF a.nan \/ b.nan THEN NaN
    ELSE IF a.v >= b.v THEN a ELSE b

\* a > b and a <= b on numbers: every comparison with NaN is false
Gt(a, b) == ~a.nan /\ ~b.nan /\ a.v > b.v

Le(a, b) == ~a.nan /\ ~b.nan /\ a.v <= b.v

\* ceiling of n / d for d > 0
CeilDiv(n, d) == -((-n) \div d)

\* `${x}` for a number held in hundredths: 300 -> "3", 330 -> "3.3", 501 -> "5.01"
NumberToString(x) ==
    IF x.nan THEN "NaN"
    ELSE LET a == IF x.v < 0 THEN -x.v ELSE x.v
             sg == IF x.v < 0 THEN "-" ELSE ""
             ip == a \div 100
             fp == a % 100
         IN  IF fp = 0 THEN sg \o ToString(ip)
             ELSE IF fp % 10 = 0 THEN sg \o ToString(ip) \o "." \o ToString(fp \div 10)
             ELSE sg \o ToString(ip) \o "." \o ToString(fp \div 10) \o ToString(fp % 10)

-----------------------------------------------------------------------------
(* generateChecklistItems: the technical calculations *)

minimumInverterPower == Number(300)

power(d) == parseFloat(d.inverterPower)

\* adjustedPower without the floor
adjustedPower_noFloor(d) == power(d)


adjustedPower(d) == MathMax(power(d), minimumInverterPower)

\* numberOfStrings with the threshold at 8 inclusive
numberOfStrings_ge8(d) == IF d.solarPanelsCount >= 8 THEN 3 ELSE 2


numberOfStrings(d) == IF d.solarPanelsCount > 8 THEN 3 ELSE 2

stringConfig(d) == IF d.solarPanelsCount > 8 THEN "3x3" ELSE "2x2"

panelsPerString(d) ==
    IF d.solarPanelsCount > 8 THEN CeilDiv(d.solarPanelsCount, 3)
    ELSE CeilDiv(d.solarPanelsCount, 2)

\* Math.ceil(stringCurrent * 1.25) with stringCurrent = panelPower / 40, panelPower = 550
fuseCurrent == CeilDiv(550 * 125, 40 * 100)

\* groundingRods rounded down
groundingRods_floor(d) == (numberOfStrings(d) * 5) \div 10

\* Math.ceil(numberOfStrings * 0.5)
groundingRods(d) == CeilDiv(numberOfStrings(d) * 5, 10)

\* Math.ceil(solarPanelsCount * 2)
groundCableLength(d) == d.solarPanelsCount * 2

\* ccCableLength rounded down
ccCableLength_floor(d) == (d.solarPanelsCount * 45) \div 10

\* Math.ceil(solarPanelsCount * 4.5)
ccCableLength(d) == CeilDiv(d.solarPanelsCount * 45, 10)

\* Math.ceil(adjustedPower * 2.5 + 10)
caCableLength(d) ==
    LET a == adjustedPower(d)
    IN  IF a.nan THEN NaN ELSE Number(CeilDiv(a.v * 25 + 10000, 1000) * 100)

\* mc4Connectors without the extra pair
mc4Connectors_noExtra(d) ==
    IF numberOfStrings(d) > 3 THEN numberOfStrings(d) ELSE 3

\* Math.max(3, Math.ceil(numberOfStrings + 1))
mc4Connectors(d) ==
    IF numberOfStrings(d) + 1 > 3 THEN numberOfStrings(d) + 1 ELSE 3

caCableSection == "6mm²"

\* breakerCurrent with inclusive boundaries
breakerCurrent_inclusive(d) ==
    LET b0 == 32
        b1 == IF ~adjustedPower(d).nan /\ adjustedPower(d).v >= 500 THEN 40 ELSE b0
        b2 == IF ~adjustedPower(d).nan /\ adjustedPower(d).v >= 800 THEN 50 ELSE b1
    IN  b2


breakerCurrent(d) ==
    LET b0 == 32
        b1 == IF Gt(adjustedPower(d), Number(500)) THEN 40 ELSE b0
        b2 == IF Gt(adjustedPower(d), Number(800)) THEN 50 ELSE b1
    IN  b2

\* surgeRating with exclusive boundaries
surgeRating_exclusive(d) ==
    IF ~adjustedPower(d).nan /\ adjustedPower(d).v < 500 THEN "20kA"
    ELSE IF ~adjustedPower(d).nan /\ adjustedPower(d).v < 1500 THEN "40kA"
    ELSE "60kA"


surgeRating(d) ==
    IF Le(adjustedPower(d), Number(500)) THEN "20kA"
    ELSE IF Le(adjustedPower(d), Number(1500)) THEN "40kA"
    ELSE "60kA"

Item(t, desc, c) == [title |-> t, description |-> desc, category |-> c]

-----------------------------------------------------------------------------
(* getStructureItems *)

panelsPerRow(panelCount, nStrings) == CeilDiv(panelCount, nStrings)

\* Math.ceil(panelsPerRow * 2.1)
railLength(panelCount, nStrings) ==
    CeilDiv(panelsPerRow(panelCount, nStrings) * 21, 10)

\* totalRailLength for a single row
totalRailLength_single(panelCount, nStrings) ==
    railLength(panelCount, nStrings)


totalRailLength(panelCount, nStrings) ==
    railLength(panelCount, nStrings) * nStrings

\* fixationPoints rounded down
fixationPoints_floor(panelCount) == (panelCount * 12) \div 10

\* Math.ceil(panelCount * 1.2)
fixationPoints(panelCount) == CeilDiv(panelCount * 12, 10)
\* one foundation per string
foundationPoints_perString(nStrings) == nStrings

\* Math.ceil(numberOfStrings * 2)
foundationPoints(nStrings) == nStrings * 2

ceramicoItems(panelCount, nStrings) ==
    << Item("Ganchos para Telha Cerâmica (" \o ToString(fixationPoints(panelCount)) \o " un)",
            "Ganchos ajustáveis em aço inox 316 para telhas cerâmicas, com vedação EPDM dupla, suporte para "
              \o ToString(nStrings) \o " fileiras",
            "estrutura"),
       Item("Trilhos de Alumínio Anodizado (" \o ToString(totalRailLength(panelCount, nStrings)) \o "m)",
            "Trilhos 40x40mm para " \o ToString(nStrings) \o " strings de "
              \o ToString(panelsPerRow(panelCount, nStrings))
              \o " painéis, incluindo emendas, terminais e reguladores",
            "estrutura"),
       Item("Grampos de Fixação (" \o ToString(panelCount * 2) \o " un)",
            ToString(CeilDiv(panelCount * 2, 10)) \o " grampos terminais + "
              \o ToString(CeilDiv(panelCount * 18, 10)) \o " intermediários, alumínio anodizado",
            "estrutura"),
       Item("Kit de Fixação Cerâmica (" \o ToString(fixationPoints(panelCount)) \o " kits)",
            "Parafusos M8x80, buchas S8, arruelas e vedações EPDM para fixação em estrutura cerâmica",
            "estrutura") >>

metalicoItems(panelCount, nStrings) ==
    << Item("Grampos Trapezoidais (" \o ToString(CeilDiv(fixationPoints(panelCount) * 7, 10)) \o " un)",
            "Grampos para telha trapezoidal/zipada, adequados para " \o ToString(nStrings)
              \o " fileiras, com vedação dupla EPDM",
            "estrutura"),
       Item("Trilhos de Alumínio Anodizado (" \o ToString(totalRailLength(panelCount, nStrings)) \o "m)",
            "Sistema de trilhos 40x40mm para estrutura metálica, " \o ToString(nStrings)
              \o " strings, com conectores e terminais",
            "estrutura"),
       Item("Grampos de Fixação (" \o ToString(panelCount * 2) \o " un)",
            "Grampos terminais e intermediários para fixação de " \o ToString(panelCount)
              \o " painéis em " \o ToString(nStrings) \o " strings",
            "estrutura"),
       Item("Parafusos Autoperfurantes (" \o ToString(fixationPoints(panelCount) * 2) \o " un)",
            "Parafusos 12x80mm com vedação EPDM, brocas adequadas para perfil metálico",
            "estrutura") >>

fibrocimentoItems(panelCount, nStrings) ==
    << Item("Ganchos para Telha Fibrocimento (" \o ToString(fixationPoints(panelCount)) \o " un)",
            "Ganchos específicos para telhas de fibrocimento/Brasilit, em aço galvanizado, com vedação EPDM reforçada para "
              \o ToString(nStrings) \o " fileiras",
            "estrutura"),
       Item("Trilhos de Alumínio Anodizado (" \o ToString(totalRailLength(panelCount, nStrings)) \o "m)",
            "Sistema de trilhos 40x40mm reforçado para fibrocimento, " \o ToString(nStrings)
              \o " strings de " \o ToString(panelsPerRow(panelCount, nStrings))
              \o " painéis, com conectores especiais",
            "estrutura"),
       Item("Grampos de Fixação (" \o ToString(panelCount * 2) \o " un)",
            "Grampos terminais e intermediários em alumínio anodizado, adequados para carga de vento em fibrocimento",
            "estrutura"),
       Item("Kit de Fixação Fibrocimento (" \o ToString(fixationPoints(panelCount)) \o " kits)",
            "Parafusos autoperfurantes 12x100mm, buchas especiais, arruelas metálicas e vedações EPDM duplas para telhas de fibrocimento",
            "estrutura"),
       Item("Reforço Estrutural",
            ToString(CeilDiv(fixationPoints(panelCount) * 3, 10))
              \o " perfis de reforço interno em aço galvanizado para distribuição de cargas em telhas fibrocimento",
            "estrutura") >>

soloItems(panelCount, nStrings) ==
    << Item("Estrutura Solo Fixa (" \o ToString(CeilDiv(panelCount, 6)) \o " kits)",
            "Sistema de estrutura fixa para solo, cada kit comporta 6 painéis, inclinação 20°, para "
              \o ToString(nStrings) \o " strings",
            "estrutura"),
       Item("Fundações de Concreto (" \o ToString(foundationPoints(nStrings)) \o " un)",
            "Blocos de fundação 40x40x60cm ou estacas hélice contínua, adequadas para "
              \o ToString(panelCount) \o " painéis",
            "estrutura"),
       Item("Kit de Ancoragem (" \o ToString(foundationPoints(nStrings)) \o " kits)",
            "Chumbadores M16x200mm, porcas, arruelas e graute para fixação da estrutura nas fundações",
            "estrutura"),
       Item("Sistema de Aterramento Solo",
            "Malha de aterramento com " \o ToString(foundationPoints(nStrings))
              \o " hastes cobreadas interligadas, cabo nu 25mm²",
            "estrutura") >>

\* getStructureItems whose default falls through to the last case
getStructureItems_fallthrough(roofType, panelCount, nStrings) ==
    CASE roofType = "ceramico"     -> ceramicoItems(panelCount, nStrings)
      [] roofType = "metalico"     -> metalicoItems(panelCount, nStrings)
      [] roofType = "fibrocimento" -> fibrocimentoItems(panelCount, nStrings)
      [] OTHER                     -> soloItems(panelCount, nStrings)

\* getStructureItems that gives a fibre-cement roof the ceramic items
getStructureItems_fibroAsCeramic(roofType, panelCount, nStrings) ==
    CASE roofType = "ceramico"     -> ceramicoItems(panelCount, nStrings)
      [] roofType = "metalico"     -> metalicoItems(panelCount, nStrings)
      [] roofType = "fibrocimento" -> ceramicoItems(panelCount, nStrings)
      [] roofType = "solo"         -> soloItems(panelCount, nStrings)
      [] OTHER                     -> << >>

getStructureItems(roofType, panelCount, nStrings) ==
    CASE roofType = "ceramico"     -> ceramicoItems(panelCount, nStrings)
      [] roofType = "metalico"     -> metalicoItems(panelCount, nStrings)
      [] roofType = "fibrocimento" -> fibrocimentoItems(panelCount, nStrings)
      [] roofType = "solo"         -> soloItems(panelCount, nStrings)
      [] OTHER                     -> << >>

-----------------------------------------------------------------------------
(* generateChecklistItems: the items *)

safetyItems(d) ==
    << Item("Sistema de Aterramento Equipotencial",
            "Hastes cobreadas 2,4m (" \o ToString(groundingRods(d)) \o " un), cabo nu 16mm² ("
              \o ToString(groundCableLength(d)) \o "m), conectores de aterramento",
            "seguranca") >>

electricalItems(d) ==
    << Item("Cabo Solar CC 6mm² (" \o ToString(ccCableLength(d)) \o "m)",
            ToString(CeilDiv(ccCableLength(d), 2)) \o "m vermelho + "
              \o ToString(CeilDiv(ccCableLength(d), 2))
              \o "m preto, cabo solar 6mm² dupla isolação para configuração " \o stringConfig(d),
            "materiais_eletricos"),
       Item("Conectores MC4 (" \o ToString(mc4Connectors(d)) \o " pares)",
            "Conectores MC4 originais: 1 par no telhado (interligação strings) + 2 pares no inversor (entrada CC)",
            "materiais_eletricos"),
       Item("String Box CC " \o ToString(numberOfStrings(d)) \o "x1",
            "Caixa de proteção CC para configuração " \o stringConfig(d) \o ", fusíveis "
              \o ToString(fuseCurrent) \o "A, DPS CC Tipo II",
            "materiais_eletricos"),
       Item("Cabo CA " \o caCableSection \o " (" \o NumberToString(caCableLength(d)) \o "m)",
            "Cabo multipolar " \o caCableSection \o " para " \o NumberToString(adjustedPower(d))
              \o "kW (mínimo 3kW), isolação 0,6/1kV, conexão inversor-quadro CA",
            "materiais_eletricos"),
       Item("Disjuntor CA " \o ToString(breakerCurrent(d)) \o "A",
            "Disjuntor tripolar " \o ToString(breakerCurrent(d)) \o "A (padrão "
              \o ToString(breakerCurrent(d)) \o "A), curva C, 6kA, para proteção do circuito CA",
            "materiais_eletricos"),
       Item("DPS CA Classe II",
            "Dispositivo de proteção contra surtos CA, " \o surgeRating(d) \o ", adequado para "
              \o NumberToString(adjustedPower(d)) \o "kW",
            "materiais_eletricos") >>

\* generateChecklistItems pushing the structure items before the electrical ones
generateChecklistItems_structureFirst(d) ==
    safetyItems(d)
      \o getStructureItems(d.roofType, d.solarPanelsCount, numberOfStrings(d))
      \o electricalItems(d)


generateChecklistItems(d) ==
    safetyItems(d) \o electricalItems(d)
      \o getStructureItems(d.roofType, d.solarPanelsCount, numberOfStrings(d))

-----------------------------------------------------------------------------
(* shared schema: column types and request schemas *)

RoofTypes == {"ceramico", "metalico", "fibrocimento", "solo"}

Statuses == {"planejamento", "em_andamento", "concluido"}

MinPanelsCount == 1

MaxPanelsCount == 200

\* a field the request body does not carry
Absent == "<absent>"

\* JSON values of a request body
JStr(x) == [type |-> "string", str |-> x, num |-> 0]

JNum(n) == [type |-> "number", str |-> "", num |-> n]

\* position after the longest prefix of s that parseFloat reads
NumericEnd(s) ==
    LET start  == IF Len(s) >= 1 /\ s[1] \in {"-", "+"} THEN 2 ELSE 1
        ie     == DigitsEnd(s, start)
        hasDot == ie <= Len(s) /\ s[ie] = "."
    IN  IF hasDot THEN DigitsEnd(s, ie + 1) ELSE ie

RECURSIVE IntToChars(_)
IntToChars(n) ==
    IF n < 10 THEN <<DigitChars[n + 1]>>
    ELSE IntToChars(n \div 10) \o <<DigitChars[(n % 10) + 1]>>

\* decimal("inverter_power", {precision: 5, scale: 2}): the column takes a
\* numeric literal below 1000 and gives it back with two decimals
DecimalAccepts(s) ==
    /\ ~parseFloat(s).nan
    /\ NumericEnd(s) = Len(s) + 1
    /\ parseFloat(s).v < 100000
    /\ parseFloat(s).v > -100000

DecimalStored(s) ==
    LET h == parseFloat(s).v
        a == IF h < 0 THEN -h ELSE h
    IN  (IF h < 0 THEN <<"-">> ELSE << >>)
          \o IntToChars(a \div 100) \o <<".">>
          \o <<DigitChars[((a % 100) \div 10) + 1], DigitChars[(a % 10) + 1]>>

\* insertProjectSchema.parse succeeds
insertProjectSchema(b) ==
    /\ b.roofType \in RoofTypes
    /\ LET num == parseFloat(b.inverterPower)
       IN  ~num.nan /\ num.v >= 300 /\ num.v <= 10000
    /\ b.solarPanelsCount >= MinPanelsCount
    /\ b.solarPanelsCount <= MaxPanelsCount

\* the updateSchema of PATCH /api/projects/:id
updateSchema(b) ==
    /\ b.roofType \in RoofTypes
    /\ b.status \in Statuses

ItemStringFields == {"title", "description", "category"}

\* updateChecklistItemSchema.parse succeeds: every column of checklist_items
\* but id, projectId and createdAt, each optional
updateChecklistItemSchema(u) ==
    /\ DOMAIN u \subseteq ItemStringFields \cup {"isCompleted"}
    /\ \A f \in DOMAIN u :
          IF f \in ItemStringFields THEN u[f].type = "string"
          ELSE u[f].type = "number"

JsonValue(j) == IF j.type = "string" THEN j.str ELSE j.num

-----------------------------------------------------------------------------
(* DatabaseStorage *)

\* db.insert(projects).values(insertProject): status defaults to planejamento
ProjectRow(b) ==
    [ roofType         |-> b.roofType,
      inverterPower    |-> DecimalStored(b.inverterPower),
      solarPanelsCount |-> b.solarPanelsCount,
      status           |-> IF b.status = Absent THEN "planejamento" ELSE b.status ]

\* the rows POST /api/projects builds from the generated items
ItemRows(items, projectId) ==
    [ i \in 1..Len(items) |->
        [ projectId   |-> projectId,
          title       |-> items[i].title,
          description |-> items[i].description,
          category    |-> items[i].category,
          isCompleted |-> 0 ] ]

\* db.insert(checklistItems).values(items): ids from the serial
createChecklistItems(rows) ==
    [ id \in (DOMAIN checklistItems) \cup (nextItemId..(nextItemId + Len(rows) - 1)) |->
        IF id \in DOMAIN checklistItems THEN checklistItems[id]
        ELSE rows[id - nextItemId + 1] ]

updateChecklistItem_noWhere(id, u) ==
    [ i \in DOMAIN checklistItems |->
        [ f \in DOMAIN checklistItems[i] |->
            IF f \in DOMAIN u THEN JsonValue(u[f]) ELSE checklistItems[i][f] ] ]

\* db.update(checklistItems).set(updates).where(id = ...)
updateChecklistItem(id, u) ==
    [ i \in DOMAIN checklistItems |->
        IF i = id
        THEN [ f \in DOMAIN checklistItems[i] |->
                 IF f \in DOMAIN u THEN JsonValue(u[f]) ELSE checklistItems[i][f] ]
        ELSE checklistItems[i] ]

\* the foreign key without onDelete: "cascade"
CascadeItems_none(id) == checklistItems

\* references(() => projects.id, {onDelete: "cascade"}): the rows that go
\* with the project
CascadeItems(id) ==
    [ i \in {j \in DOMAIN checklistItems : checklistItems[j].projectId # id} |->
        checklistItems[i] ]

\* db.delete(projects).where(id = ...)
deleteProject(id) ==
    /\ projects' = [ i \in (DOMAIN projects) \ {id} |-> projects[i] ]
    /\ checklistItems' = CascadeItems(id)

\* db.update(projects).set(updates) without the where clause
updateProject_noWhere(id, b) ==
    [ i \in DOMAIN projects |->
        [ roofType         |-> b.roofType,
          inverterPower    |-> DecimalStored(b.inverterPower),
          solarPanelsCount |-> b.solarPanelsCount,
          status           |-> b.status ] ]

\* db.update(projects).set(updates).where(id = ...)
updateProject(id, b) ==
    [ i \in DOMAIN projects |->
        IF i = id
        THEN [ roofType         |-> b.roofType,
               inverterPower    |-> DecimalStored(b.inverterPower),
               solarPanelsCount |-> b.solarPanelsCount,
               status           |-> b.status ]
        ELSE projects[i] ]

\* db.update(projects).set({status}).where(id = ...)
updateProjectStatus(id, status) ==
    [ i \in DOMAIN projects |->
        IF i = id THEN [projects[i] EXCEPT !.status = status] ELSE projects[i] ]

Answer(op, code, id) == [op |-> op, code |-> code, id |-> id]

NoBody == [roofType |-> "", inverterPower |-> << >>, solarPanelsCount |-> 0,
           status |-> Absent]

NoReturn == [id |-> 0, body |-> NoBody, found |-> FALSE, items |-> << >>]

NoCall == [route |-> "", panelCount |-> 0, inverterPower |-> NaN,
           roofType |-> "", stringConfig |-> ""]

-----------------------------------------------------------------------------
(* gemini.ts *)

\* values JSON.parse can produce; keys are an object's own property names
JUndefined == [type |-> "undefined", num |-> 0, str |-> "", items |-> << >>, keys |-> {}]

JNumber(n) == [type |-> "number", num |-> n, str |-> "", items |-> << >>, keys |-> {}]

JString(x) == [type |-> "string", num |-> 0, str |-> x, items |-> << >>, keys |-> {}]

JArray(a) == [type |-> "array", num |-> 0, str |-> "", items |-> a, keys |-> {}]

JObject(k) == [type |-> "object", num |-> 0, str |-> "", items |-> << >>, keys |-> k]

\* the parsed answer with the four properties analyzeProject reads of it
Data(es, rec, cost, tips) ==
    [ type              |-> "object",
      efficiency_score  |-> es,
      recommendations   |-> rec,
      cost_optimization |-> cost,
      installation_tips |-> tips ]

\* a parsed answer that is not an object: every property read gives undefined
\* (and throws when the answer is null)
Primitive(t) ==
    [ type              |-> t,
      efficiency_score  |-> JUndefined,
      recommendations   |-> JUndefined,
      cost_optimization |-> JUndefined,
      installation_tips |-> JUndefined ]

NoAnalysis ==
    [ efficiency_score  |-> 0,
      recommendations   |-> << >>,
      cost_optimization |-> "",
      installation_tips |-> << >> ]

\* the analysis of the catch block of analyzeProject
FallbackAnalysis ==
    [ efficiency_score  |-> 85,
      recommendations   |-> << JString("Verifique o dimensionamento do inversor"),
                               JString("Considere a orientação solar ideal"),
                               JString("Avalie a estrutura do telhado") >>,
      cost_optimization |-> "Análise indisponível no momento",
      installation_tips |-> << JString("Verifique as condições climáticas"),
                               JString("Mantenha ferramentas organizadas"),
                               JString("Teste todas as conexões") >> ]

\* the try block of analyzeProject: o is what ai.models.generateContent did
analyzeTry(o) ==
    IF o.kind \in {"rejects", "empty", "unparsable"} \/ o.data.type = "null"
    THEN [threw |-> TRUE, analysis |-> NoAnalysis]
    ELSE [ threw    |-> FALSE,
           analysis |->
             [ efficiency_score  |-> IF o.data.efficiency_score.type = "number"
                                     THEN o.data.efficiency_score.num ELSE 75,
               recommendations   |-> IF o.data.recommendations.type = "array"
                                     THEN o.data.recommendations.items ELSE << >>,
               cost_optimization |-> IF o.data.cost_optimization.type = "string"
                                     THEN o.data.cost_optimization.str
                                     ELSE "Nenhuma otimização específica identificada.",
               installation_tips |-> IF o.data.installation_tips.type = "array"
                                     THEN o.data.installation_tips.items ELSE << >> ] ]

analyzeProject(o) ==
    IF analyzeTry(o).threw
    THEN [threw |-> FALSE, analysis |-> FallbackAnalysis]
    ELSE analyzeTry(o)

\* ToString(e) throws a TypeError for an object whose own toString property
\* hides Object.prototype.toString: no parsed value is callable, and
\* Object.prototype.valueOf returns the object
Converts(e) == ~(e.type = "object" /\ "toString" \in e.keys)

\* `${e}`
TemplateString(e) ==
    CASE e.type = "string"    -> e.str
      [] e.type = "number"    -> ToString(e.num)
      [] e.type = "null"      -> "null"
      [] e.type = "undefined" -> "undefined"
      [] e.type = "object"    -> "[object Object]"
      [] OTHER                -> ""

\* a.join(sep) and a.map(f).join(sep) throw when an element does not convert
JoinThrows(a) == \E i \in 1..Len(a) : ~Converts(a[i])

RECURSIVE BulletLines(_)
\* a.map(x => `* ${x}`).join('\n'), the bullet character written as *
BulletLines(a) ==
    IF Len(a) = 0 THEN ""
    ELSE IF Len(a) = 1 THEN "* " \o TemplateString(a[1])
    ELSE "* " \o TemplateString(a[1]) \o "\n" \o BulletLines(Tail(a))

\* the try block of generateInstallationReport: the prompt joins the two
\* arrays, o2 is what ai.models.generateContent did
reportTry(analysis, o2) ==
    IF JoinThrows(analysis.recommendations) \/ JoinThrows(analysis.installation_tips)
    THEN [threw |-> TRUE, report |-> ""]
    ELSE IF o2.kind = "rejects"
    THEN [threw |-> TRUE, report |-> ""]
    ELSE [threw |-> FALSE,
          report |-> IF o2.text = "" THEN "Relatório não pôde ser gerado" ELSE o2.text]

\* the project's name, which the model does not keep, is left out of the text
generateInstallationReport(analysis, panelCount, inverterPower, o2) ==
    IF ~reportTry(analysis, o2).threw
    THEN reportTry(analysis, o2)
    ELSE IF JoinThrows(analysis.recommendations) \/ JoinThrows(analysis.installation_tips)
    THEN [threw |-> TRUE, report |-> ""]
    ELSE [threw |-> FALSE,
          report |-> "RESUMO DO PROJETO\n- Painéis Solares: " \o ToString(panelCount)
                     \o " unidades (550W cada)\n- Inversor: "
                     \o NumberToString(inverterPower)
                     \o "kW\n- Score de Eficiência: "
                     \o ToString(analysis.efficiency_score)
                     \o "/100\n\nRECOMENDAÇÕES TÉCNICAS\n"
                     \o BulletLines(analysis.recommendations)
                     \o "\n\nDICAS DE INSTALAÇÃO\n"
                     \o BulletLines(analysis.installation_tips)
                     \o "\n\nOTIMIZAÇÃO DE CUSTOS\n"
                     \o analysis.cost_optimization]

NoResult == [threw |-> FALSE, analysis |-> NoAnalysis, report |-> ""]

-----------------------------------------------------------------------------
(* HTTP handlers *)

\* POST /api/projects, up to and including storage.createProject
PostProject(b) ==
    /\ opCount < MaxOps
    /\ opCount' = opCount + 1
    /\ UNCHANGED <<checklistItems, nextItemId, aiCall, aiResult, returned, genVars>>
    /\ IF ~insertProjectSchema(b)
       THEN /\ response' = Answer("POST /api/projects", 400, 0)
            /\ UNCHANGED <<projects, nextProjectId, creating>>
       ELSE IF ~DecimalAccepts(b.inverterPower)
       THEN /\ response' = Answer("POST /api/projects", 500, 0)
            /\ UNCHANGED <<projects, nextProjectId, creating>>
       ELSE /\ nextProjectId <= MaxProjects
            /\ projects' = [ i \in (DOMAIN projects) \cup {nextProjectId} |->
                               IF i = nextProjectId THEN ProjectRow(b) ELSE projects[i] ]
            /\ nextProjectId' = nextProjectId + 1
            /\ creating' = creating \cup
                   {[projectId |-> nextProjectId, body |-> b, phase |-> "items"]}
            /\ UNCHANGED response

\* POST /api/projects, generateChecklistItems and storage.createChecklistItems;
\* the insert of the items fails on the foreign key when the project is gone
PostProjectItems(c) ==
    /\ c \in creating
    /\ c.phase = "items"
    /\ UNCHANGED <<projects, nextProjectId, aiCall, aiResult, opCount, returned, genVars>>
    /\ IF c.projectId \in DOMAIN projects
       THEN LET rows == ItemRows(generateChecklistItems(c.body), c.projectId)
            IN  /\ checklistItems' = createChecklistItems(rows)
                /\ nextItemId' = nextItemId + Len(rows)
                /\ creating' = (creating \ {c}) \cup {[c EXCEPT !.phase = "read"]}
                /\ UNCHANGED response
       ELSE /\ response' = Answer("POST /api/projects", 500, c.projectId)
            /\ creating' = creating \ {c}
            /\ UNCHANGED <<checklistItems, nextItemId>>

\* storage.getProjectWithItems(id): undefined without the project, else the
\* project with the items stored for it
getProjectWithItems(id) ==
    IF id \notin DOMAIN projects
    THEN [found |-> FALSE, items |-> << >>]
    ELSE [found |-> TRUE,
          items |-> [ i \in {j \in DOMAIN checklistItems : checklistItems[j].projectId = id} |->
                        checklistItems[i] ]]

\* POST /api/projects, storage.getProjectWithItems and res.json
PostProjectRead(c) ==
    /\ c \in creating
    /\ c.phase = "read"
    /\ creating' = creating \ {c}
    /\ returned' = [ id    |-> c.projectId,
                     body  |-> c.body,
                     found |-> getProjectWithItems(c.projectId).found,
                     items |-> getProjectWithItems(c.projectId).items ]
    /\ response' = Answer("POST /api/projects", 200, c.projectId)
    /\ UNCHANGED <<projects, checklistItems, nextProjectId, nextItemId, aiCall, aiResult,
                   opCount, genVars>>

\* PATCH /api/checklist-items/:id
PatchChecklistItem(id, u) ==
    /\ opCount < MaxOps
    /\ opCount' = opCount + 1
    /\ UNCHANGED <<projects, nextProjectId, nextItemId, creating, aiCall, aiResult, returned, genVars>>
    /\ IF ~updateChecklistItemSchema(u)
       THEN /\ response' = Answer("PATCH /api/checklist-items/:id", 400, id)
            /\ UNCHANGED checklistItems
       ELSE IF id \notin DOMAIN checklistItems
       THEN /\ response' = Answer("PATCH /api/checklist-items/:id", 404, id)
            /\ UNCHANGED checklistItems
       ELSE /\ checklistItems' = updateChecklistItem(id, u)
            /\ response' = Answer("PATCH /api/checklist-items/:id", 200, id)

\* DELETE /api/projects/:id
DeleteProject(id) ==
    /\ opCount < MaxOps
    /\ opCount' = opCount + 1
    /\ deleteProject(id)
    /\ response' = Answer("DELETE /api/projects/:id", 200, id)
    /\ UNCHANGED <<nextProjectId, nextItemId, creating, aiCall, aiResult, returned, genVars>>

\* PATCH /api/projects/:id/status
PatchProjectStatus(id, status) ==
    /\ opCount < MaxOps
    /\ opCount' = opCount + 1
    /\ UNCHANGED <<checklistItems, nextProjectId, nextItemId, creating, aiCall, aiResult, returned, genVars>>
    /\ IF status \notin Statuses
       THEN /\ response' = Answer("PATCH /api/projects/:id/status", 400, id)
            /\ UNCHANGED projects
       ELSE /\ projects' = updateProjectStatus(id, status)
            /\ response' = Answer("PATCH /api/projects/:id/status", 200, id)

\* PATCH /api/projects/:id replacing the project's items by freshly generated ones
PatchProject_regenerate(id, b) ==
    /\ opCount < MaxOps
    /\ opCount' = opCount + 1
    /\ UNCHANGED <<nextProjectId, creating, aiCall, aiResult, returned, genVars>>
    /\ IF ~updateSchema(b)
       THEN /\ response' = Answer("PATCH /api/projects/:id", 400, id)
            /\ UNCHANGED <<projects, checklistItems, nextItemId>>
       ELSE IF ~DecimalAccepts(b.inverterPower)
       THEN /\ response' = Answer("PATCH /api/projects/:id", 500, id)
            /\ UNCHANGED <<projects, checklistItems, nextItemId>>
       ELSE /\ projects' = updateProject(id, b)
            /\ response' = Answer("PATCH /api/projects/:id",
                                  IF id \in DOMAIN projects THEN 200 ELSE 404, id)
            /\ IF id \in DOMAIN projects
               THEN LET rows == ItemRows(generateChecklistItems(b), id)
                        kept == {j \in DOMAIN checklistItems : checklistItems[j].projectId # id}
                    IN  /\ checklistItems' =
                              [ i \in kept \cup (nextItemId..(nextItemId + Len(rows) - 1)) |->
                                  IF i \in kept THEN checklistItems[i]
                                  ELSE rows[i - nextItemId + 1] ]
                        /\ nextItemId' = nextItemId + Len(rows)
               ELSE UNCHANGED <<checklistItems, nextItemId>>

\* PATCH /api/projects/:id
PatchProject(id, b) ==
    /\ opCount < MaxOps
    /\ opCount' = opCount + 1
    /\ UNCHANGED <<checklistItems, nextProjectId, nextItemId, creating, aiCall, aiResult, returned, genVars>>
    /\ IF ~updateSchema(b)
       THEN /\ response' = Answer("PATCH /api/projects/:id", 400, id)
            /\ UNCHANGED projects
       ELSE IF ~DecimalAccepts(b.inverterPower)
       THEN /\ response' = Answer("PATCH /api/projects/:id", 500, id)
            /\ UNCHANGED projects
       ELSE /\ projects' = updateProject(id, b)
            /\ response' = Answer("PATCH /api/projects/:id",
                                  IF id \in DOMAIN projects THEN 200 ELSE 404, id)

\* the analyze route with the threshold at 8 inclusive
analyzeStringConfig_ge8(project) ==
    IF project.solarPanelsCount >= 8 THEN "3x3" ELSE "2x2"

\* the string configuration POST /api/projects/:id/analyze determines
analyzeStringConfig(project) ==
    IF project.solarPanelsCount > 8 THEN "3x3" ELSE "2x2"

\* the string configuration POST /api/projects/:id/report determines
reportStringConfig(project) ==
    IF project.solarPanelsCount > 8 THEN "3x3" ELSE "2x2"

\* POST /api/projects/:id/analyze
AnalyzeProject(id, o) ==
    /\ opCount < MaxOps
    /\ opCount' = opCount + 1
    /\ UNCHANGED <<projects, checklistItems, nextProjectId, nextItemId, creating, returned, genVars>>
    /\ IF id \notin DOMAIN projects
       THEN /\ response' = Answer("POST /api/projects/:id/analyze", 404, id)
            /\ UNCHANGED <<aiCall, aiResult>>
       ELSE LET a == analyzeProject(o)
            IN  /\ aiCall' = [ route         |-> "analyze",
                               panelCount    |-> projects[id].solarPanelsCount,
                               inverterPower |-> parseFloat(projects[id].inverterPower),
                               roofType      |-> projects[id].roofType,
                               stringConfig  |-> analyzeStringConfig(projects[id]) ]
                /\ aiResult' = [threw |-> a.threw, analysis |-> a.analysis, report |-> ""]
                /\ response' = Answer("POST /api/projects/:id/analyze",
                                      IF a.threw THEN 500 ELSE 200, id)

\* POST /api/projects/:id/report
ReportProject(id, o, o2) ==
    /\ opCount < MaxOps
    /\ opCount' = opCount + 1
    /\ UNCHANGED <<projects, checklistItems, nextProjectId, nextItemId, creating, returned, genVars>>
    /\ IF id \notin DOMAIN projects
       THEN /\ response' = Answer("POST /api/projects/:id/report", 404, id)
            /\ UNCHANGED <<aiCall, aiResult>>
       ELSE LET a == analyzeProject(o)
                r == IF a.threw THEN [threw |-> TRUE, report |-> ""]
                     ELSE generateInstallationReport(a.analysis,
                                                     projects[id].solarPanelsCount,
                                                     parseFloat(projects[id].inverterPower),
                                                     o2)
            IN  /\ aiCall' = [ route         |-> "report",
                               panelCount    |-> projects[id].solarPanelsCount,
                               inverterPower |-> parseFloat(projects[id].inverterPower),
                               roofType      |-> projects[id].roofType,
                               stringConfig  |-> reportStringConfig(projects[id]) ]
                /\ aiResult' = [threw |-> r.threw, analysis |-> a.analysis, report |-> r.report]
                /\ response' = Answer("POST /api/projects/:id/report",
                                      IF r.threw THEN 500 ELSE 200, id)

-----------------------------------------------------------------------------
(* Direct calls of the generator *)

GenPowers ==
    { <<"3">>,
      <<"3", ".", "0">>,
      <<"3", ".", "3">>,
      <<"5">>,
      <<"5", ".", "0">>,
      <<"5", ".", "0", "1">>,
      <<"6", ".", "0">>,
      <<"8">>,
      <<"8", ".", "0">>,
      <<"8", ".", "0", "1">>,
      <<"1", "1", ".", "0">>,
      <<"1", "5">>,
      <<"1", "5", ".", "0", "1">>,
      <<"1", "0", "0">>,
      <<"2", ".", "9", "9">>,
      <<"2", ".", "5">>,
      <<"0">>,
      <<"-", "1">>,
      <<"a", "b", "c">>,
      <<>> }

GenRoofTypes == RoofTypes \cup {"laje"}

GenInputs ==
    [ solarPanelsCount : MinPanelsCount..MaxPanelsCount,
      inverterPower    : GenPowers,
      roofType         : GenRoofTypes ]

NoInput == [solarPanelsCount |-> 0, inverterPower |-> << >>, roofType |-> ""]

\* const items = generateChecklistItems(projectData)
Generate ==
    /\ ~genDone
    /\ genIn # NoInput
    /\ genOut' = generateChecklistItems(genIn)
    /\ genDone' = TRUE
    /\ UNCHANGED <<genIn, storeVars, clientVars>>

-----------------------------------------------------------------------------
(* Requests *)

BaseBody == [roofType |-> "ceramico", inverterPower |-> <<"3", ".", "3">>,
             solarPanelsCount |-> 8, status |-> Absent]

CreateBodies ==
    { BaseBody,
      [roofType |-> "solo", inverterPower |-> <<"1", "1", ".", "0">>, solarPanelsCount |-> 9,
       status |-> "arquivado"],
      [BaseBody EXCEPT !.roofType = "laje"],
      [BaseBody EXCEPT !.inverterPower = <<"2", ".", "5">>],
      [BaseBody EXCEPT !.inverterPower = <<"5", "a", "b", "c">>],
      [BaseBody EXCEPT !.solarPanelsCount = 201] }

EditBodies ==
    { [roofType |-> "metalico", inverterPower |-> <<"1", "1", ".", "0">>, solarPanelsCount |-> 12, status |-> "em_andamento"],
      [roofType |-> "ceramico", inverterPower |-> <<"2", ".", "5">>, solarPanelsCount |-> 300, status |-> "planejamento"],
      [roofType |-> "laje", inverterPower |-> <<"3", ".", "3">>, solarPanelsCount |-> 6, status |-> "planejamento"],
      [roofType |-> "ceramico", inverterPower |-> <<"a", "b", "c">>, solarPanelsCount |-> 6, status |-> "planejamento"] }

ItemBodies ==
    { [isCompleted |-> JNum(1)],
      [isCompleted |-> JNum(0)],
      [title |-> JStr("Item editado"), description |-> JStr("Texto editado")],
      [category |-> JStr("outra")],
      [isCompleted |-> JStr("sim")] }

StatusBodies == Statuses \cup {"arquivado"}

\* what the model call of analyzeProject can do
AnalyzeOutcomes ==
    { [kind |-> "rejects", data |-> Primitive("undefined")],
      [kind |-> "empty", data |-> Primitive("undefined")],
      [kind |-> "unparsable", data |-> Primitive("undefined")],
      [kind |-> "json", data |-> Primitive("null")],
      [kind |-> "json", data |-> Data(JNumber(92), JArray(<<JString("Use otimizadores")>>),
                                      JString("Compre em lote"),
                                      JArray(<<JString("Use EPI")>>))],
      [kind |-> "json", data |-> Data(JString("92"), JUndefined, JNumber(3),
                                      JObject({"dica"}))],
      [kind |-> "json", data |-> Data(JNumber(92), JArray(<<JObject({"toString"})>>),
                                      JString("Compre em lote"), JArray(<< >>))] }

\* what the model call of generateInstallationReport can do
ReportOutcomes ==
    { [kind |-> "rejects", text |-> ""],
      [kind |-> "text", text |-> ""],
      [kind |-> "text", text |-> "Relatório do modelo"] }

ProjectIds == 1..nextProjectId

\* the ids item requests name: the first item stored, the last one stored and
\* an id no item has yet
ItemIds == {1, nextItemId - 1, nextItemId} \ {0}

-----------------------------------------------------------------------------
(* The ProjectDetails page *)

\* the browser pages showing the project
Clients == {"page1", "page2"}

\* the id in the route /project/:id of the pages
projectId_route == 1

NoSnapshot == [found |-> FALSE, status |-> "", items |-> {}, completed |-> {}]

\* what the page reads of the answer of GET /api/projects/:id: the status,
\* the ids of the items and the ids of those with a truthy isCompleted
ProjectSnapshot(id) ==
    IF ~getProjectWithItems(id).found THEN NoSnapshot
    ELSE [ found     |-> TRUE,
           status    |-> projects[id].status,
           items     |-> DOMAIN getProjectWithItems(id).items,
           completed |-> {i \in DOMAIN getProjectWithItems(id).items :
                            getProjectWithItems(id).items[i].isCompleted # 0} ]

\* useQuery fetches GET /api/projects/:id
Fetch(c) ==
    /\ stale[c]
    /\ snapshot' = [snapshot EXCEPT ![c] = ProjectSnapshot(projectId_route)]
    /\ stale' = [stale EXCEPT ![c] = FALSE]
    /\ UNCHANGED <<storeVars, genVars, itemRequests, timers, statusRequests, toggles>>

\* Math.round(n / d) for n >= 0, d > 0
MathRound(n, d) == (2 * n + d) \div (2 * d)

\* updatedCompletedItems of the setTimeout callback
updatedCompletedItems(project, itemId, isCompleted) ==
    Cardinality({i \in project.items :
                   IF i = itemId THEN isCompleted ELSE i \in project.completed})

newProgress(project, itemId, isCompleted) ==
    IF Cardinality(project.items) > 0
    THEN MathRound(updatedCompletedItems(project, itemId, isCompleted) * 100,
                   Cardinality(project.items))
    ELSE 0

\* newStatus that moves to em_andamento from any status
newStatus_anyStatus(project, itemId, isCompleted) ==
    IF newProgress(project, itemId, isCompleted) = 100 /\ project.status # "concluido"
    THEN "concluido"
    ELSE IF /\ newProgress(project, itemId, isCompleted) > 0
            /\ newProgress(project, itemId, isCompleted) < 100
    THEN "em_andamento"
    ELSE project.status

newStatus(project, itemId, isCompleted) ==
    IF newProgress(project, itemId, isCompleted) = 100 /\ project.status # "concluido"
    THEN "concluido"
    ELSE IF /\ newProgress(project, itemId, isCompleted) > 0
            /\ newProgress(project, itemId, isCompleted) < 100
            /\ project.status = "planejamento"
    THEN "em_andamento"
    ELSE project.status

\* handleCheckboxChange(itemId, checked) on a rendered item: the mutation is
\* started and the callback is scheduled with the project of this render
Toggle(c, itemId) ==
    /\ toggles < MaxToggles
    /\ snapshot[c].found
    /\ itemId \in snapshot[c].items
    /\ toggles' = toggles + 1
    /\ itemRequests' = itemRequests \cup
         {[ n |-> toggles + 1, client |-> c, itemId |-> itemId,
            isCompleted |-> itemId \notin snapshot[c].completed, state |-> "pending" ]}
    /\ timers' = timers \cup
         {[ n |-> toggles + 1, client |-> c, itemId |-> itemId,
            isCompleted |-> itemId \notin snapshot[c].completed, project |-> snapshot[c] ]}
    /\ UNCHANGED <<storeVars, genVars, snapshot, stale, statusRequests>>

\* the PATCH /api/checklist-items/:id of a mutation is served: onSuccess
\* invalidates the query, onError shows the toast
ServeItemRequest(r) ==
    /\ r \in itemRequests
    /\ r.state = "pending"
    /\ PatchChecklistItem(r.itemId, [isCompleted |-> JNum(IF r.isCompleted THEN 1 ELSE 0)])
    /\ itemRequests' = (itemRequests \ {r}) \cup
         {[r EXCEPT !.state = IF response'.code = 200 THEN "success" ELSE "error"]}
    /\ stale' = IF response'.code = 200 THEN [stale EXCEPT ![r.client] = TRUE] ELSE stale
    /\ UNCHANGED <<snapshot, timers, statusRequests, toggles>>

\* the request of a mutation does not reach the server: apiRequest throws
FailItemRequest(r) ==
    /\ r \in itemRequests
    /\ r.state = "pending"
    /\ itemRequests' = (itemRequests \ {r}) \cup {[r EXCEPT !.state = "error"]}
    /\ UNCHANGED <<storeVars, genVars, snapshot, stale, timers, statusRequests, toggles>>

\* the setTimeout callback deciding on the store instead of its project
TimerFires_store(t) ==
    /\ t \in timers
    /\ \A t2 \in timers : t2.client = t.client => t2.n >= t.n
    /\ timers' = timers \ {t}
    /\ statusRequests' =
         IF newStatus(ProjectSnapshot(projectId_route), t.itemId, t.isCompleted)
              # ProjectSnapshot(projectId_route).status
         THEN statusRequests \cup
                {[ n |-> t.n, client |-> t.client,
                   status |-> newStatus(ProjectSnapshot(projectId_route), t.itemId, t.isCompleted),
                   state |-> "pending" ]}
         ELSE statusRequests
    /\ UNCHANGED <<storeVars, genVars, snapshot, stale, itemRequests, toggles>>

\* the setTimeout callback of handleCheckboxChange; the callbacks of one page
\* have the same delay and run in the order they were scheduled in
TimerFires(t) ==
    /\ t \in timers
    /\ \A t2 \in timers : t2.client = t.client => t2.n >= t.n
    /\ timers' = timers \ {t}
    /\ statusRequests' =
         IF newStatus(t.project, t.itemId, t.isCompleted) # t.project.status
         THEN statusRequests \cup
                {[ n |-> t.n, client |-> t.client,
                   status |-> newStatus(t.project, t.itemId, t.isCompleted),
                   state |-> "pending" ]}
         ELSE statusRequests
    /\ UNCHANGED <<storeVars, genVars, snapshot, stale, itemRequests, toggles>>

\* the PATCH /api/projects/:id/status of a mutation is served
ServeStatusRequest(q) ==
    /\ q \in statusRequests
    /\ q.state = "pending"
    /\ PatchProjectStatus(projectId_route, q.status)
    /\ statusRequests' = (statusRequests \ {q}) \cup
         {[q EXCEPT !.state = IF response'.code = 200 THEN "success" ELSE "error"]}
    /\ stale' = IF response'.code = 200 THEN [stale EXCEPT ![q.client] = TRUE] ELSE stale
    /\ UNCHANGED <<snapshot, itemRequests, timers, toggles>>

\* no page is open
ClientClosed ==
    /\ snapshot = [c \in Clients |-> NoSnapshot]
    /\ stale = [c \in Clients |-> FALSE]
    /\ itemRequests = {}
    /\ timers = {}
    /\ statusRequests = {}
    /\ toggles = 0

\* every page has just been opened
ClientOpened ==
    /\ snapshot = [c \in Clients |-> NoSnapshot]
    /\ stale = [c \in Clients |-> TRUE]
    /\ itemRequests = {}
    /\ timers = {}
    /\ statusRequests = {}
    /\ toggles = 0

-----------------------------------------------------------------------------
(* Specifications *)

InitStore ==
    /\ projects = << >>
    /\ checklistItems = << >>
    /\ nextProjectId = 1
    /\ nextItemId = 1
    /\ creating = {}
    /\ response = Answer("", 0, 0)
    /\ aiCall = NoCall
    /\ returned = NoReturn
    /\ aiResult = NoResult
    /\ opCount = 0

\* the server after start-up
Init ==
    /\ InitStore
    /\ ClientClosed
    /\ genIn = NoInput
    /\ genOut = << >>
    /\ genDone = FALSE

Next ==
    \/ \E b \in CreateBodies : PostProject(b) /\ UNCHANGED clientVars
    \/ \E c \in creating : PostProjectItems(c) /\ UNCHANGED clientVars
    \/ \E c \in creating : PostProjectRead(c) /\ UNCHANGED clientVars
    \/ \E id \in ItemIds, u \in ItemBodies : PatchChecklistItem(id, u) /\ UNCHANGED clientVars
    \/ \E id \in ProjectIds : DeleteProject(id) /\ UNCHANGED clientVars
    \/ \E id \in ProjectIds, st \in StatusBodies :
         PatchProjectStatus(id, st) /\ UNCHANGED clientVars
    \/ \E id \in ProjectIds, b \in EditBodies : PatchProject(id, b) /\ UNCHANGED clientVars
    \/ \E id \in ProjectIds, o \in AnalyzeOutcomes :
         AnalyzeProject(id, o) /\ UNCHANGED clientVars
    \/ \E id \in ProjectIds, o \in AnalyzeOutcomes, o2 \in ReportOutcomes :
         ReportProject(id, o, o2) /\ UNCHANGED clientVars

Spec == Init /\ [][Next]_vars

\* one call of generateChecklistItems on any input
InitGen ==
    /\ InitStore
    /\ ClientClosed
    /\ genIn \in GenInputs
    /\ genOut = << >>
    /\ genDone = FALSE

NextGen == Generate

SpecGen == InitGen /\ [][NextGen]_vars

\* the items of the project the pages show
PageRows == ItemRows(generateChecklistItems(BaseBody), projectId_route)

\* how many of the project's items, the first ones, are completed at the start
CompletedAtStart == {0, Len(PageRows) - 2}

\* the pages are opened on a project created earlier, some of its items
\* completed and its status set since
InitPage ==
    /\ \E st \in Statuses :
         projects = [i \in {projectId_route} |-> [ProjectRow(BaseBody) EXCEPT !.status = st]]
    /\ \E k \in CompletedAtStart :
         checklistItems =
           [i \in 1..Len(PageRows) |->
              [PageRows[i] EXCEPT !.isCompleted = IF i <= k THEN 1 ELSE 0]]
    /\ nextProjectId = projectId_route + 1
    /\ nextItemId = Len(PageRows) + 1
    /\ creating = {}
    /\ response = Answer("", 0, 0)
    /\ aiCall = NoCall
    /\ returned = NoReturn
    /\ aiResult = NoResult
    /\ opCount = 0
    /\ ClientOpened
    /\ genIn = NoInput
    /\ genOut = << >>
    /\ genDone = FALSE

\* the items the user of a page clicks on: on the first page the last two of
\* the project, on the other page the last one
ToggleIds(c) ==
    IF c = "page1" THEN {Len(PageRows) - 1, Len(PageRows)} ELSE {Len(PageRows)}

NextPage ==
    \/ \E c \in Clients : Fetch(c)
    \/ \E c \in Clients : \E itemId \in ToggleIds(c) : Toggle(c, itemId)
    \/ \E r \in itemRequests : ServeItemRequest(r)
    \/ \E r \in itemRequests : FailItemRequest(r)
    \/ \E t \in timers : TimerFires(t)
    \/ \E q \in statusRequests : ServeStatusRequest(q)

SpecPage == InitPage /\ [][NextPage]_vars

\* creations on the server while pages are opened on /project/1
InitRead ==
    /\ InitStore
    /\ ClientOpened
    /\ genIn = NoInput
    /\ genOut = << >>
    /\ genDone = FALSE

NextRead ==
    \/ \E b \in CreateBodies : PostProject(b) /\ UNCHANGED clientVars
    \/ \E c \in creating : PostProjectItems(c) /\ UNCHANGED clientVars
    \/ \E c \in creating : PostProjectRead(c) /\ UNCHANGED clientVars
    \/ \E c \in Clients : Fetch(c)

SpecRead == InitRead /\ [][NextRead]_vars

-----------------------------------------------------------------------------
(* Properties *)

CountCategory(items, c) ==
    Cardinality({i \in 1..Len(items) : items[i].category = c})

CategoryRank(c) ==
    CASE c = "seguranca" -> 1
      [] c = "materiais_eletricos" -> 2
      [] c = "estrutura" -> 3
      [] OTHER -> 4

\* the adjusted power a call is documented to use, in hundredths
DocumentedPower ==
    IF parseFloat(genIn.inverterPower).v < 300 THEN 300
    ELSE parseFloat(genIn.inverterPower).v

PowerIsNumber == ~parseFloat(genIn.inverterPower).nan

\* C2: once a checklist item is stored, no request changes its title,
\* description or category (nor its project); only isCompleted may change.
C2_ItemTextImmutable ==
    [][ \A id \in (DOMAIN checklistItems) \cap (DOMAIN checklistItems') :
          /\ checklistItems'[id].title = checklistItems[id].title
          /\ checklistItems'[id].description = checklistItems[id].description
          /\ checklistItems'[id].category = checklistItems[id].category
          /\ checklistItems'[id].projectId = checklistItems[id].projectId ]_vars

\* C3: 1..8 panels give 2 strings and "2x2", 9..200 panels give 3 strings and
\* "3x3" (as written into the string box item), and panelsPerString is the
\* ceiling of panelCount / numberOfStrings.
C3_StringThreshold ==
    genDone =>
      LET p == genIn.solarPanelsCount
          n == IF p \in 1..8 THEN 2 ELSE 3
          cfg == IF p \in 1..8 THEN "2x2" ELSE "3x3"
      IN  /\ numberOfStrings(genIn) = n
          /\ stringConfig(genIn) = cfg
          /\ genOut[4].title = "String Box CC " \o ToString(n) \o "x1"
          /\ genOut[4].description =
               "Caixa de proteção CC para configuração " \o cfg \o ", fusíveis 18A, DPS CC Tipo II"
          /\ panelsPerString(genIn) * n >= p
          /\ (panelsPerString(genIn) - 1) * n < p

C3_Witness ==
    /\ genDone
    /\ genIn.solarPanelsCount = 9
    /\ genOut[4].title = "String Box CC 3x1"

\* C4: the breaker is 32A up to 5 kW, 40A above 5 and up to 8 kW, 50A above
\* 8 kW of adjusted power (5.0 -> 32, 5.01 -> 40, 8.0 -> 40, 8.01 -> 50) and
\* never another rating.
C4_BreakerTiers ==
    genDone =>
      /\ genOut[6].title \in {"Disjuntor CA 32A", "Disjuntor CA 40A", "Disjuntor CA 50A"}
      /\ PowerIsNumber =>
           genOut[6].title =
             IF DocumentedPower <= 500 THEN "Disjuntor CA 32A"
             ELSE IF DocumentedPower <= 800 THEN "Disjuntor CA 40A"
             ELSE "Disjuntor CA 50A"
      /\ genIn.inverterPower = <<"5", ".", "0">> => genOut[6].title = "Disjuntor CA 32A"
      /\ genIn.inverterPower = <<"5", ".", "0", "1">> => genOut[6].title = "Disjuntor CA 40A"
      /\ genIn.inverterPower = <<"8", ".", "0">> => genOut[6].title = "Disjuntor CA 40A"
      /\ genIn.inverterPower = <<"8", ".", "0", "1">> => genOut[6].title = "Disjuntor CA 50A"

C4_Witness ==
    /\ genDone
    /\ genIn.inverterPower = <<"8", ".", "0", "1">>
    /\ genOut[6].title = "Disjuntor CA 50A"

\* C5: the surge protector of the 'DPS CA Classe II' item is 20kA up to 5 kW,
\* 40kA above 5 and up to 15 kW, 60kA above 15 kW of adjusted power; 11.0 kW
\* gives 40kA.
C5_SurgeTiers ==
    genDone =>
      /\ genOut[7].title = "DPS CA Classe II"
      /\ PowerIsNumber =>
           genOut[7].description =
             "Dispositivo de proteção contra surtos CA, "
               \o (IF DocumentedPower <= 500 THEN "20kA"
                   ELSE IF DocumentedPower <= 1500 THEN "40kA" ELSE "60kA")
               \o ", adequado para " \o NumberToString(Number(DocumentedPower)) \o "kW"
      /\ genIn.inverterPower = <<"1", "1", ".", "0">> =>
           genOut[7].description =
             "Dispositivo de proteção contra surtos CA, 40kA, adequado para 11kW"

C5_Witness ==
    /\ genDone
    /\ genIn.inverterPower = <<"1", "1", ".", "0">>
    /\ genOut[7].description =
         "Dispositivo de proteção contra surtos CA, 40kA, adequado para 11kW"

\* C6: a call with an inverter power below 3.0 returns the very items the
\* call with power 3.0 (same panel count and roof type) returns.
C6_PowerFloor ==
    (genDone /\ PowerIsNumber /\ parseFloat(genIn.inverterPower).v < 300) =>
      genOut = generateChecklistItems([genIn EXCEPT !.inverterPower = <<"3", ".", "0">>])

C6_Witness ==
    /\ genDone
    /\ genIn.inverterPower = <<"2", ".", "5">>
    /\ genOut[5].title = "Cabo CA 6mm² (18m)"

\* C7: every call returns 1 safety and 6 electrical items; the structure
\* items are 4 for ceramico, metalico and solo, 5 for fibrocimento and none
\* for any other roof type, where the total is 7.
C7_RoofCoverage ==
    genDone =>
      /\ CountCategory(genOut, "seguranca") = 1
      /\ CountCategory(genOut, "materiais_eletricos") = 6
      /\ CountCategory(genOut, "estrutura") =
           (IF genIn.roofType \in {"ceramico", "metalico", "solo"} THEN 4
            ELSE IF genIn.roofType = "fibrocimento" THEN 5 ELSE 0)
      /\ Len(genOut) = 7 + CountCategory(genOut, "estrutura")
      /\ genIn.roofType \notin RoofTypes => Len(genOut) = 7

C7_Witness ==
    /\ genDone
    /\ genIn.roofType = "laje"
    /\ Len(genOut) = 7

\* C8: in the returned sequence the safety items come first, then the
\* electrical items, then the structure items.
C8_CategoryOrder ==
    genDone =>
      \A i \in 1..Len(genOut), j \in 1..Len(genOut) :
        i < j => CategoryRank(genOut[i].category) <= CategoryRank(genOut[j].category)

C8_Witness ==
    /\ genDone
    /\ Len(genOut) = 12
    /\ genOut[1].category = "seguranca"
    /\ genOut[7].category = "materiais_eletricos"
    /\ genOut[12].category = "estrutura"

\* C9: the configuration label the analyze and report routes hand to
\* analyzeProject is the label the generator computes, and writes into its
\* items, for the same panel count.
C9_SingleStringConfig ==
    aiCall # NoCall =>
      LET d == [solarPanelsCount |-> aiCall.panelCount,
                inverterPower |-> <<"3", ".", "0">>,
                roofType |-> aiCall.roofType]
      IN  /\ aiCall.stringConfig = stringConfig(d)
          /\ generateChecklistItems(d)[4].description =
               "Caixa de proteção CC para configuração " \o aiCall.stringConfig
                 \o ", fusíveis 18A, DPS CC Tipo II"

C9_Witness ==
    /\ aiCall.route = "report"
    /\ aiCall.panelCount = 9
    /\ aiCall.stringConfig = "3x3"

\* C10: every stored checklist item belongs to a stored project, and when
\* DELETE /api/projects/:id answers no item of that project is left.
C10_CascadeDelete ==
    [][ /\ \A i \in DOMAIN checklistItems : checklistItems[i].projectId \in DOMAIN projects
        /\ \A i \in DOMAIN checklistItems' : checklistItems'[i].projectId \in DOMAIN projects'
        /\ \A id \in ProjectIds :
             DeleteProject(id) =>
               \A i \in DOMAIN checklistItems' : checklistItems'[i].projectId # id ]_vars

C10_Witness ==
    /\ response.op = "DELETE /api/projects/:id"
    /\ response.id = 1
    /\ nextProjectId = 2
    /\ nextItemId > 1
    /\ DOMAIN checklistItems = {}

\* C11: PATCH /api/projects/:id leaves every checklist item as it is, whatever
\* it changes in the project, and items appear only when POST /api/projects
\* inserts them.
C11_NoRegeneration ==
    [][ /\ (response'.op = "PATCH /api/projects/:id" /\ opCount' = opCount + 1)
             => checklistItems' = checklistItems
        /\ (DOMAIN checklistItems') \ (DOMAIN checklistItems) # {}
             => (creating' # creating /\ opCount' = opCount) ]_vars

C11_Witness ==
    /\ response = Answer("PATCH /api/projects/:id", 200, 1)
    /\ 1 \in DOMAIN projects
    /\ projects[1].solarPanelsCount = 12
    /\ projects[1].roofType = "metalico"
    /\ 4 \in DOMAIN checklistItems
    /\ checklistItems[4].title = "String Box CC 2x1"
    /\ 8 \in DOMAIN checklistItems
    /\ checklistItems[8].title = "Ganchos para Telha Cerâmica (10 un)"

ProjectInputOf(row) ==
    <<row.solarPanelsCount, row.inverterPower, row.roofType>>

\* C12 as stated: no request changes the solarPanelsCount, inverterPower or
\* roofType stored for a project.
C12_InputImmutable ==
    [][ \A id \in (DOMAIN projects) \cap (DOMAIN projects') :
          ProjectInputOf(projects'[id]) = ProjectInputOf(projects[id]) ]_vars

\* C12 amended: the solarPanelsCount, inverterPower and roofType stored for a
\* project change only by a PATCH /api/projects/:id for that project, which
\* stores the values of its body; every other request leaves them as they are.
C12_InputChangedOnlyByEdit ==
    [][ \A id \in (DOMAIN projects) \cap (DOMAIN projects') :
          ProjectInputOf(projects'[id]) # ProjectInputOf(projects[id]) =>
            /\ response' = Answer("PATCH /api/projects/:id", 200, id)
            /\ opCount' = opCount + 1
            /\ \E b \in EditBodies :
                 /\ projects'[id].solarPanelsCount = b.solarPanelsCount
                 /\ projects'[id].roofType = b.roofType
                 /\ parseFloat(projects'[id].inverterPower) = parseFloat(b.inverterPower) ]_vars

C12_Witness ==
    /\ response = Answer("PATCH /api/projects/:id", 200, 1)
    /\ DOMAIN projects = {1, 2}
    /\ projects[1].solarPanelsCount = 12
    /\ projects[1].roofType = "metalico"
    /\ projects[2].solarPanelsCount = 8
    /\ projects[2].roofType = "ceramico"

\* C13: every stored project has 1..200 panels, an inverter power between
\* 3.0 and 100 and one of the four roof types.
C13_InputDomain ==
    \A id \in DOMAIN projects :
      /\ projects[id].solarPanelsCount \in MinPanelsCount..MaxPanelsCount
      /\ ~parseFloat(projects[id].inverterPower).nan
      /\ parseFloat(projects[id].inverterPower).v >= 300
      /\ parseFloat(projects[id].inverterPower).v <= 10000
      /\ projects[id].roofType \in RoofTypes

\* ceiling of n / d for n >= 0 and d > 0, as the documentation's ceil
CeilOf(n, d) == (n + d - 1) \div d

DocumentedStrings == IF genIn.solarPanelsCount > 8 THEN 3 ELSE 2

DocumentedFixationPoints == CeilOf(genIn.solarPanelsCount * 12, 10)

DocumentedRailLength ==
    CeilOf(CeilOf(genIn.solarPanelsCount, DocumentedStrings) * 21, 10) * DocumentedStrings

\* C16: the 'Cabo Solar CC' title carries ceil(panelCount * 4.5) metres (27 m
\* for 6 panels) and the 'Cabo CA' title ceil(max(power, 3.0) * 2.5 + 10) metres.
C16_CableLengths ==
    genDone =>
      /\ genOut[2].title =
           "Cabo Solar CC 6mm² (" \o ToString(CeilOf(genIn.solarPanelsCount * 9, 2)) \o "m)"
      /\ genIn.solarPanelsCount = 6 => genOut[2].title = "Cabo Solar CC 6mm² (27m)"
      /\ PowerIsNumber =>
           genOut[5].title =
             "Cabo CA 6mm² (" \o ToString(CeilOf(DocumentedPower * 25 + 10000, 1000)) \o "m)"

C16_Witness ==
    /\ genDone
    /\ genIn.solarPanelsCount = 6
    /\ genIn.inverterPower = <<"3", ".", "3">>
    /\ genOut[2].title = "Cabo Solar CC 6mm² (27m)"
    /\ genOut[5].title = "Cabo CA 6mm² (19m)"

\* C17: the 'Conectores MC4' title carries 3 pairs for 1..8 panels and 4 pairs
\* for 9..200 panels.
C17_Mc4Pairs ==
    genDone =>
      genOut[3].title =
        IF genIn.solarPanelsCount <= 8 THEN "Conectores MC4 (3 pares)"
        ELSE "Conectores MC4 (4 pares)"

C17_Witness ==
    /\ genDone
    /\ genIn.solarPanelsCount = 9
    /\ genOut[3].title = "Conectores MC4 (4 pares)"

\* C18: the grounding item lists 1 rod up to 8 panels and 2 rods above, and
\* 2 * panelCount metres of bare cable.
C18_Grounding ==
    genDone =>
      /\ genOut[1].title = "Sistema de Aterramento Equipotencial"
      /\ genOut[1].description =
           "Hastes cobreadas 2,4m ("
             \o (IF genIn.solarPanelsCount <= 8 THEN "1" ELSE "2")
             \o " un), cabo nu 16mm² (" \o ToString(2 * genIn.solarPanelsCount)
             \o "m), conectores de aterramento"

C18_Witness ==
    /\ genDone
    /\ genIn.solarPanelsCount = 200
    /\ genOut[1].description =
         "Hastes cobreadas 2,4m (2 un), cabo nu 16mm² (400m), conectores de aterramento"

\* C19: for a ceramic roof the hooks and the fixation kits are
\* ceil(panelCount * 1.2), the rails ceil(panelsPerRow * 2.1) * numberOfStrings
\* metres with panelsPerRow = ceil(panelCount / numberOfStrings), the clamps
\* panelCount * 2.
C19_CeramicItems ==
    (genDone /\ genIn.roofType = "ceramico") =>
      /\ genOut[8].title =
           "Ganchos para Telha Cerâmica (" \o ToString(DocumentedFixationPoints) \o " un)"
      /\ genOut[9].title =
           "Trilhos de Alumínio Anodizado (" \o ToString(DocumentedRailLength) \o "m)"
      /\ genOut[9].description =
           "Trilhos 40x40mm para " \o ToString(DocumentedStrings) \o " strings de "
             \o ToString(CeilOf(genIn.solarPanelsCount, DocumentedStrings))
             \o " painéis, incluindo emendas, terminais e reguladores"
      /\ genOut[10].title =
           "Grampos de Fixação (" \o ToString(genIn.solarPanelsCount * 2) \o " un)"
      /\ genOut[11].title =
           "Kit de Fixação Cerâmica (" \o ToString(DocumentedFixationPoints) \o " kits)"

C19_Witness ==
    /\ genDone
    /\ genIn.roofType = "ceramico"
    /\ genIn.solarPanelsCount = 6
    /\ genOut[8].title = "Ganchos para Telha Cerâmica (8 un)"
    /\ genOut[9].title = "Trilhos de Alumínio Anodizado (14m)"

\* C20: for a metal roof the trapezoidal clamps are ceil(fixationPoints * 0.7)
\* with fixationPoints = ceil(panelCount * 1.2) (17 for 20 panels), the rails
\* are those of a ceramic roof and the self-tapping screws fixationPoints * 2.
C20_MetalItems ==
    (genDone /\ genIn.roofType = "metalico") =>
      /\ genOut[8].title =
           "Grampos Trapezoidais (" \o ToString(CeilOf(DocumentedFixationPoints * 7, 10)) \o " un)"
      /\ genIn.solarPanelsCount = 20 => genOut[8].title = "Grampos Trapezoidais (17 un)"
      /\ genOut[9].title =
           "Trilhos de Alumínio Anodizado (" \o ToString(DocumentedRailLength) \o "m)"
      /\ genOut[9].title =
           generateChecklistItems([genIn EXCEPT !.roofType = "ceramico"])[9].title
      /\ genOut[11].title =
           "Parafusos Autoperfurantes (" \o ToString(DocumentedFixationPoints * 2) \o " un)"

C20_Witness ==
    /\ genDone
    /\ genIn.roofType = "metalico"
    /\ genIn.solarPanelsCount = 20
    /\ genIn.inverterPower = <<"1", "1", ".", "0">>
    /\ genOut[8].title = "Grampos Trapezoidais (17 un)"
    /\ genOut[11].title = "Parafusos Autoperfurantes (48 un)"

\* the child record the creation stores for a generated item
StoredRow(item, projectId) ==
    [ projectId   |-> projectId,
      title       |-> item.title,
      description |-> item.description,
      category    |-> item.category,
      isCompleted |-> 0 ]

\* C14 as stated: the project a successful POST /api/projects returns contains
\* exactly the generated items, each with the project's id and isCompleted = 0.
C14_CreationBatch ==
    (response.op = "POST /api/projects" /\ response.code = 200) =>
      LET gen == generateChecklistItems(returned.body)
      IN  /\ returned.found
          /\ Cardinality(DOMAIN returned.items) = Len(gen)
          /\ \A k \in 1..Len(gen) :
               \E i \in DOMAIN returned.items :
                 returned.items[i] = StoredRow(gen[k], returned.id)

\* C15: /analyze and /report on an existing project never answer 500 for
\* what the model call did: analyzeProject always returns a complete analysis
\* (numeric score, two arrays, a string) and generateInstallationReport
\* always returns a string.
C15_AiNeverFatal ==
    (/\ response.op \in {"POST /api/projects/:id/analyze", "POST /api/projects/:id/report"}
     /\ response.code # 404) =>
      /\ response.code = 200
      /\ ~aiResult.threw
      /\ aiResult.analysis.efficiency_score \in Nat
      /\ aiResult.analysis.cost_optimization # ""
      /\ response.op = "POST /api/projects/:id/report" => aiResult.report # ""

\* the items generated for the same input on a ceramic roof
CeramicOut == generateChecklistItems([genIn EXCEPT !.roofType = "ceramico"])

\* C21: for a fibre-cement roof the hooks, the rails, the clamps and the
\* fixation kits carry the quantities of a ceramic roof with the same panel
\* count, and a fifth item 'Reforço Estrutural' lists ceil(fixationPoints * 0.3)
\* reinforcement profiles.
C21_FibrocimentoItems ==
    (genDone /\ genIn.roofType = "fibrocimento") =>
      /\ Len(genOut) = Len(CeramicOut) + 1
      /\ genOut[8].title =
           "Ganchos para Telha Fibrocimento (" \o ToString(DocumentedFixationPoints) \o " un)"
      /\ CeramicOut[8].title =
           "Ganchos para Telha Cerâmica (" \o ToString(DocumentedFixationPoints) \o " un)"
      /\ genOut[9].title = CeramicOut[9].title
      /\ genOut[10].title = CeramicOut[10].title
      /\ genOut[11].title =
           "Kit de Fixação Fibrocimento (" \o ToString(DocumentedFixationPoints) \o " kits)"
      /\ CeramicOut[11].title =
           "Kit de Fixação Cerâmica (" \o ToString(DocumentedFixationPoints) \o " kits)"
      /\ genOut[12].title = "Reforço Estrutural"
      /\ genOut[12].description =
           ToString(CeilOf(DocumentedFixationPoints * 3, 10))
             \o " perfis de reforço interno em aço galvanizado para distribuição de cargas em telhas fibrocimento"
      /\ genOut[12].category = "estrutura"

C21_Witness ==
    /\ genDone
    /\ genIn.roofType = "fibrocimento"
    /\ genIn.solarPanelsCount = 20
    /\ genOut[8].title = "Ganchos para Telha Fibrocimento (24 un)"
    /\ genOut[10].title = "Grampos de Fixação (40 un)"
    /\ genOut[12].description =
         "8 perfis de reforço interno em aço galvanizado para distribuição de cargas em telhas fibrocimento"

\* C22: for a ground mount the fixed-tilt kits are ceil(panelCount / 6), the
\* foundations numberOfStrings * 2 (4 up to 8 panels, 6 above), the anchor
\* kits and the rods of the grounding mesh as many as the foundations, and the
\* four items carry no rail or fixation-point quantity.
C22_SoloItems ==
    (genDone /\ genIn.roofType = "solo") =>
      LET points == IF genIn.solarPanelsCount <= 8 THEN 4 ELSE 6
      IN  /\ Len(genOut) = 11
          /\ points = DocumentedStrings * 2
          /\ genOut[8].title =
               "Estrutura Solo Fixa (" \o ToString(CeilOf(genIn.solarPanelsCount, 6)) \o " kits)"
          /\ genOut[8].description =
               "Sistema de estrutura fixa para solo, cada kit comporta 6 painéis, inclinação 20°, para "
                 \o ToString(DocumentedStrings) \o " strings"
          /\ genOut[9].title = "Fundações de Concreto (" \o ToString(points) \o " un)"
          /\ genOut[9].description =
               "Blocos de fundação 40x40x60cm ou estacas hélice contínua, adequadas para "
                 \o ToString(genIn.solarPanelsCount) \o " painéis"
          /\ genOut[10].title = "Kit de Ancoragem (" \o ToString(points) \o " kits)"
          /\ genOut[10].description =
               "Chumbadores M16x200mm, porcas, arruelas e graute para fixação da estrutura nas fundações"
          /\ genOut[11].title = "Sistema de Aterramento Solo"
          /\ genOut[11].description =
               "Malha de aterramento com " \o ToString(points)
                 \o " hastes cobreadas interligadas, cabo nu 25mm²"

C22_Witness ==
    /\ genDone
    /\ genIn.roofType = "solo"
    /\ genIn.solarPanelsCount = 12
    /\ genIn.inverterPower = <<"6", ".", "0">>
    /\ genOut[4].title = "String Box CC 3x1"
    /\ genOut[6].title = "Disjuntor CA 40A"
    /\ genOut[8].title = "Estrutura Solo Fixa (2 kits)"
    /\ genOut[9].title = "Fundações de Concreto (6 un)"
    /\ genOut[10].title = "Kit de Ancoragem (6 kits)"

\* C29: the red and the black length written in the description of the
\* 'Cabo Solar CC' item add up to the total length written in its title.
C29_CableSplit ==
    genDone =>
      \E total \in 1..(MaxPanelsCount * 5) :
        /\ genOut[2].title = "Cabo Solar CC 6mm² (" \o ToString(total) \o "m)"
        /\ \E red \in 0..total, config \in {"2x2", "3x3"} :
             genOut[2].description =
               ToString(red) \o "m vermelho + " \o ToString(total - red)
                 \o "m preto, cabo solar 6mm² dupla isolação para configuração " \o config

\* C30: for a ceramic roof the terminal and the intermediate clamps written in
\* the description of the 'Grampos de Fixação' item add up to the total
\* written in its title.
C30_ClampBreakdown ==
    (genDone /\ genIn.roofType = "ceramico") =>
      \E total \in 1..(MaxPanelsCount * 2) :
        /\ genOut[10].title = "Grampos de Fixação (" \o ToString(total) \o " un)"
        /\ \E terminal \in 0..total :
             genOut[10].description =
               ToString(terminal) \o " grampos terminais + " \o ToString(total - terminal)
                 \o " intermediários, alumínio anodizado"

\* C26: the status stored for a project is always planejamento, em_andamento
\* or concluido, and PATCH /api/projects/:id/status with another value answers
\* 400 and changes nothing.
C26_StatusDomain ==
    [][ /\ \A id \in DOMAIN projects' : projects'[id].status \in Statuses
        /\ \A id \in ProjectIds, st \in StatusBodies \ Statuses :
             PatchProjectStatus(id, st) =>
               /\ response' = Answer("PATCH /api/projects/:id/status", 400, id)
               /\ UNCHANGED <<projects, checklistItems>> ]_vars

\* nothing of the pages is under way: no request, no callback, no fetch
Quiescent ==
    /\ timers = {}
    /\ \A r \in itemRequests : r.state # "pending"
    /\ \A q \in statusRequests : q.state # "pending"
    /\ \A c \in Clients : ~stale[c]

\* the number of completed items of a callback's project, the toggled item
\* taken with its new value
CompletedAfter(t) ==
    Cardinality((t.project.completed \ {t.itemId})
                  \cup (IF t.isCompleted THEN {t.itemId} ELSE {}))

\* C23: when the callback of a toggle runs, on the project of the render the
\* toggle was made in, it requests concluido if every item is then completed
\* and the status is not concluido, em_andamento if some but not all items
\* are completed and the status is planejamento, and nothing otherwise; no
\* status request is issued in any other way.
C23_StatusTransition ==
    [][ /\ \A t \in timers \ timers' :
             {q.status : q \in statusRequests' \ statusRequests} =
               IF /\ CompletedAfter(t) = Cardinality(t.project.items)
                  /\ t.project.status # "concluido"
               THEN {"concluido"}
               ELSE IF /\ CompletedAfter(t) >= 1
                       /\ CompletedAfter(t) < Cardinality(t.project.items)
                       /\ t.project.status = "planejamento"
               THEN {"em_andamento"}
               ELSE {}
        /\ \A q \in statusRequests' :
             (\A x \in statusRequests : x.n # q.n) =>
               /\ q.state = "pending"
               /\ \E t \in timers \ timers' : t.n = q.n /\ t.client = q.client ]_vars

C23_Witness ==
    /\ timers = {}
    /\ \E q \in statusRequests : q.status = "concluido" /\ q.state = "success"
    /\ \E q \in statusRequests : q.status = "em_andamento" /\ q.state = "success"
    /\ \E r \in itemRequests : r.state = "success"
    /\ projects[projectId_route].status = "concluido"

\* C24: a callback whose project does not show another item completed never
\* requests concluido, whatever the store holds by then; so two toggles, each
\* decided without the other's change, leave every item completed and the
\* status short of concluido.
C24_StaleDecision ==
    [][ \A t \in timers \ timers' :
          (\E i \in t.project.items \ {t.itemId} : i \notin t.project.completed) =>
            \A q \in statusRequests' \ statusRequests : q.status # "concluido" ]_vars

C24_Witness ==
    /\ Quiescent
    /\ toggles = 2
    /\ \E r1 \in itemRequests, r2 \in itemRequests :
         /\ r1.client # r2.client
         /\ r1.itemId # r2.itemId
         /\ r1.state = "success" /\ r1.isCompleted
         /\ r2.state = "success" /\ r2.isCompleted
    /\ \A i \in DOMAIN checklistItems : checklistItems[i].isCompleted = 1
    /\ projects[projectId_route].status = "em_andamento"
    /\ \A c \in Clients : snapshot[c].completed = snapshot[c].items

\* C25: a toggle whose PATCH /api/checklist-items/:id failed has no status
\* request of its own.
C25_FailedToggleNoStatus ==
    \A r \in itemRequests :
      r.state = "error" => \A q \in statusRequests : q.n # r.n

\* C27 as stated: a POST /api/projects that answers 400 or 500 leaves no new
\* project and no new item in the store, and no GET /api/projects/:id made
\* while projects are created returns a project without items.
C27_AllOrNothing ==
    [][ /\ \A b \in CreateBodies :
             (PostProject(b) /\ response'.code \in {400, 500} /\ response' # response) =>
               UNCHANGED <<projects, checklistItems>>
        /\ \A c \in Clients :
             snapshot'[c].found => snapshot'[c].items # {} ]_vars

\* what PATCH /api/checklist-items/:id leaves alone: every project record,
\* the set of items and every item but the one named; the named item's new
\* record is made of its old record and the body only
ItemFrame(id, u) ==
    /\ projects' = projects
    /\ DOMAIN checklistItems' = DOMAIN checklistItems
    /\ \A i \in DOMAIN checklistItems \ {id} : checklistItems'[i] = checklistItems[i]
    /\ id \in DOMAIN checklistItems =>
         \/ checklistItems'[id] = checklistItems[id]
         \/ checklistItems'[id] =
              [ f \in DOMAIN checklistItems[id] |->
                  IF f \in DOMAIN u THEN JsonValue(u[f]) ELSE checklistItems[id][f] ]

====
